---- MODULE Spec2Model ----
(***************************************************************************)
(* Model of miele-outlet-scrape.py: parse_pdf (row parser, record          *)
(* normaliser, aggregator), filter_products and check_product_status.      *)
(*                                                                         *)
(* Text is modelled at character level: a string is a sequence of          *)
(* one-character strings.  A line of extracted page text is a sequence of  *)
(* tokens (non-empty strings without whitespace); it denotes the tokens    *)
(* joined by single spaces.  Currency amounts (Python floats parsed from   *)
(* two-decimal strings) are integers of pence; discount_rate (a float      *)
(* rounded to two decimals) is an integer of hundredths of a percent.      *)
(* Python's None is the empty tuple, a present value x is <<x>>.           *)
(***************************************************************************)
EXTENDS Integers, Sequences, FiniteSets, TLC

VARIABLES
    pc,                \* control position of the run
    lines,             \* the extracted text: indices into Pricelist
    line,              \* index into lines of the next line to scan
    matches,           \* parse_pdf: id -> product, in insertion order
    update_info,       \* parse_pdf: grade -> date
    filter,            \* --filter
    grade,             \* --grade
    max_price,         \* --max-price
    check_status,      \* --check-status
    call,              \* number of filter_products calls started
    before,            \* the aggregated collection as passed to the first call
    filtered_products, \* filter_products: ids of the result, in insertion order
    prod,              \* filter_products: index into matches of the current product
    available_units,   \* filter_products: the current product's original unit list
    unit,              \* filter_products: index into available_units of the next unit
    checked,           \* ids handed to check_product_status in this call, in order
    outcome,           \* id -> what the network did on its check in this call
    results            \* the value each finished call returned

vars == <<pc, lines, line, matches, update_info, filter, grade, max_price,
          check_status, call, before, filtered_products, prod, available_units,
          unit, checked, outcome, results>>

parseVars == <<lines, filter, grade, max_price, check_status, call, before,
               filtered_products, prod, available_units, unit, checked,
               outcome, results>>

-----------------------------------------------------------------------------
(* Bounds *)

\* lines of text in a run of parse_pdf alone
MaxLines == 3

\* lines of text in a run that goes on to filter
MaxFilterLines == 2

\* calls of filter_products on one aggregated mapping
MaxCalls == 2

-----------------------------------------------------------------------------
(* Characters and strings *)

None == <<>>

Some(x) == <<x>>

DigitSeq == <<"0", "1", "2", "3", "4", "5", "6", "7", "8", "9">>

UpperSeq == <<"A", "B", "C", "D", "E", "F", "G", "H", "I", "J", "K", "L", "M",
              "N", "O", "P", "Q", "R", "S", "T", "U", "V", "W", "X", "Y", "Z">>

LowerSeq == <<"a", "b", "c", "d", "e", "f", "g", "h", "i", "j", "k", "l", "m",
              "n", "o", "p", "q", "r", "s", "t", "u", "v", "w", "x", "y", "z">>

Range(s) == {s[k] : k \in DOMAIN s}

Digit == Range(DigitSeq)

Upper == Range(UpperSeq)

WordChar == Digit \cup Upper \cup Range(LowerSeq) \cup {"_"}

DigitVal(c) == (CHOOSE k \in DOMAIN DigitSeq : DigitSeq[k] = c) - 1

\* re.IGNORECASE: both sides are compared with letters folded to lower case
LowerChar(c) ==
    IF c \in Upper THEN LowerSeq[CHOOSE k \in DOMAIN UpperSeq : UpperSeq[k] = c]
    ELSE c

LowerStr(s) == [k \in DOMAIN s |-> LowerChar(s[k])]

StartsWithAt(s, k, w) ==
    /\ k + Len(w) - 1 <= Len(s)
    /\ \A j \in DOMAIN w : s[k + j - 1] = w[j]

Min(S) == CHOOSE x \in S : \A y \in S : x <= y

\* " ".join / the text of a run of tokens
RECURSIVE Join(_)
Join(toks) ==
    IF toks = <<>> THEN <<>>
    ELSE IF Len(toks) = 1 THEN toks[1]
    ELSE toks[1] \o <<" ">> \o Join(Tail(toks))

\* str.strip()
RECURSIVE Strip(_)
Strip(s) ==
    IF s = <<>> THEN s
    ELSE IF s[1] = " " THEN Strip(Tail(s))
    ELSE IF s[Len(s)] = " " THEN Strip(SubSeq(s, 1, Len(s) - 1))
    ELSE s

\* str.replace(",", "")
RECURSIVE RemoveCommas(_)
RemoveCommas(s) ==
    IF s = <<>> THEN <<>>
    ELSE IF s[1] = "," THEN RemoveCommas(Tail(s))
    ELSE <<s[1]>> \o RemoveCommas(Tail(s))

RECURSIVE DigitsValue(_)
DigitsValue(s) ==
    IF s = <<>> THEN 0
    ELSE 10 * DigitsValue(SubSeq(s, 1, Len(s) - 1)) + DigitVal(s[Len(s)])

\* float(text.replace(",", "")) of a matched [\d,]+\.\d{2}, in pence
ParseAmount(text) ==
    LET t == RemoveCommas(text)
    IN  100 * DigitsValue(SubSeq(t, 1, Len(t) - 3))
          + DigitsValue(SubSeq(t, Len(t) - 1, Len(t)))

-----------------------------------------------------------------------------
(* The two line shapes *)

kwMiele == <<"M", "i", "e", "l", "e">>

kwOutlet == <<"O", "u", "t", "l", "e", "t">>

kwGrade == <<"G", "r", "a", "d", "e">>

kwPricelist == <<"P", "r", "i", "c", "e", "l", "i", "s", "t">>

kwDash == <<"-">>

kwUpdated == <<"U", "p", "d", "a", "t", "e", "d">>

kwStock == <<"S", "t", "o", "c", "k">>

\* \d+
IsDigits(tok) == tok # <<>> /\ \A k \in DOMAIN tok : tok[k] \in Digit

\* [A-Z0-9]+
IsGradeCode(tok) == tok # <<>> /\ \A k \in DOMAIN tok : tok[k] \in Upper \cup Digit

\* £[\d,]+\.\d{2} covering the whole token
IsAmount(tok) ==
    /\ Len(tok) >= 5
    /\ tok[1] = "£"
    /\ \A k \in 2..(Len(tok) - 3) : tok[k] \in Digit \cup {","}
    /\ tok[Len(tok) - 2] = "."
    /\ tok[Len(tok) - 1] \in Digit
    /\ tok[Len(tok)] \in Digit

\* \d{2}\/\d{2}\/\d{4} at the start of the token; the pattern ends there and
\* re.match does not anchor the end
DateLen == 10

BeginsWithDate(tok) ==
    /\ Len(tok) >= DateLen
    /\ \A k \in {1, 2, 4, 5, 7, 8, 9, 10} : tok[k] \in Digit
    /\ tok[3] = "/"
    /\ tok[6] = "/"

\* re.match(update_pattern, line, re.X)
UpdateMatch(L) ==
    /\ Len(L) >= 8
    /\ L[1] = kwMiele
    /\ L[2] = kwOutlet
    /\ IsGradeCode(L[3])
    /\ L[4] = kwGrade
    /\ L[5] = kwPricelist
    /\ L[6] = kwDash
    /\ L[7] = kwUpdated
    /\ BeginsWithDate(L[8])

\* update_match.groupdict()
UpdateGroups(L) == [grade |-> L[3], date |-> SubSeq(L[8], 1, DateLen)]

\* variant of SuffixAt: the pattern without its closing $
SuffixAtUnanchored(L, s) ==
    /\ s + 4 <= Len(L)
    /\ L[s] = kwOutlet
    /\ IsGradeCode(L[s + 1])
    /\ L[s + 2] = kwStock
    /\ IsAmount(L[s + 3])
    /\ IsAmount(L[s + 4])

\* the fixed suffix of the product-row pattern, from token s to the end ($)
SuffixAt(L, s) ==
    /\ s + 4 <= Len(L)
    /\ L[s] = kwOutlet
    /\ IsGradeCode(L[s + 1])
    /\ L[s + 2] = kwStock
    /\ IsAmount(L[s + 3])
    /\ IsAmount(L[s + 4])
    /\ \/ Len(L) = s + 4
       \/ Len(L) = s + 5 /\ IsAmount(L[s + 5])

\* where the grade group may start: after the id and a non-empty description
SuffixStarts(L) == {s \in 3..Len(L) : SuffixAt(L, s)}

\* re.match(pattern, line, re.X)
RowMatch(L) ==
    /\ Len(L) >= 1
    /\ IsDigits(L[1])
    /\ SuffixStarts(L) # {}

\* match.groupdict(); description is non-greedy, so the first start is taken
RowGroups(L) ==
    LET s == Min(SuffixStarts(L))
    IN  [id |-> L[1],
         description |-> Join(SubSeq(L, 2, s - 1)),
         grade |-> Join(SubSeq(L, s, s + 2)),
         rrp |-> Tail(L[s + 3]),
         price |-> Tail(L[s + 4]),
         discounted_price |->
             IF Len(L) >= s + 5 /\ IsAmount(L[s + 5])
             THEN Some(Tail(L[s + 5])) ELSE None]

-----------------------------------------------------------------------------
(* Record normaliser *)

mkGB == <<"G", "B">>

mkEU1 == <<"E", "U", "1">>

\* (GB|EU1)\b can match at position k of s
MarkerLenAt(s, k) ==
    LET ends(w) == /\ StartsWithAt(s, k, w)
                   /\ \/ k + Len(w) > Len(s)
                      \/ s[k + Len(w)] \notin WordChar
    IN  IF ends(mkGB) THEN Len(mkGB)
        ELSE IF ends(mkEU1) THEN Len(mkEU1)
        ELSE 0

\* positions >= from where the marker matches
Markers(s, from) == {k \in from..Len(s) : MarkerLenAt(s, k) > 0}

\* [item.strip() for item in re.split(r"(GB|EU1)\b", s)], first three items
SplitDescription(s) ==
    IF Markers(s, 1) = {} THEN <<Strip(s)>>
    ELSE LET k == Min(Markers(s, 1))
             e == k + MarkerLenAt(s, k)
             n == IF Markers(s, e) = {} THEN Len(s) + 1 ELSE Min(Markers(s, e))
         IN  <<Strip(SubSeq(s, 1, k - 1)),
               SubSeq(s, k, e - 1),
               Strip(SubSeq(s, e, n - 1))>>

\* grade label "Outlet <CODE> Stock" .split()[1]
GradeOf(label) == SubSeq(label, Len(kwOutlet) + 2, Len(label) - Len(kwStock) - 1)

BaseUrl == <<"https://www.miele.co.uk/product/">>

Url(id) == BaseUrl \o id

\* round(num / den, 0) for den > 0: the nearest integers.  An exact tie is
\* decided by the binary representation of the float quotient, so both
\* neighbours are possible.
Round(num, den) ==
    LET q == num \div den
        r == num - q * den
    IN  IF 2 * r < den THEN {q}
        ELSE IF 2 * r > den THEN {q + 1}
        ELSE {q, q + 1}

\* the price the discount rate is computed from (lines 100-105)
EffectivePrice(g) ==
    IF g.discounted_price # None THEN ParseAmount(g.discounted_price[1])
    ELSE ParseAmount(g.price)

\* round((rrp - effective) / rrp * 100, 2), in hundredths of a percent
DiscountRates(rrp, effective) == Round((rrp - effective) * 10000, rrp)

\* the division of lines 102/105 raises ZeroDivisionError
DivisionFails(g) == ParseAmount(g.rrp) = 0

\* match_dict after lines 79-105 and the pops of lines 116-117
Unit(g, rate) ==
    LET sd == SplitDescription(g.description)
    IN  [description |-> sd[1],
         product_name |-> IF Len(sd) > 1 THEN sd[3] ELSE <<>>,
         grade |-> GradeOf(g.grade),
         rrp |-> ParseAmount(g.rrp),
         price |-> ParseAmount(g.price),
         discounted_price |->
             IF g.discounted_price # None
             THEN ParseAmount(g.discounted_price[1]) ELSE 0,
         discount_rate |-> rate]

-----------------------------------------------------------------------------
(* Aggregator: an insertion-ordered dict is a sequence of entries *)

Keys(d) == [k \in DOMAIN d |-> d[k].id]

Has(d, id) == \E k \in DOMAIN d : d[k].id = id

IndexOf(d, id) == CHOOSE k \in DOMAIN d : d[k].id = id

NewProduct(id) ==
    [id |-> id, url |-> Url(id), status |-> "Unknown", available_units |-> <<>>]

\* variant of AddUnit: the entry is created without the membership test
AddUnitOverwrites(d, id, u) ==
    LET d1 == IF Has(d, id)
              THEN [d EXCEPT ![IndexOf(d, id)] = NewProduct(id)]
              ELSE Append(d, NewProduct(id))
        k == IndexOf(d1, id)
    IN  [d1 EXCEPT ![k].available_units = Append(@, u)]

\* lines 107-119
AddUnit(d, id, u) ==
    LET d1 == IF Has(d, id) THEN d ELSE Append(d, NewProduct(id))
        k == IndexOf(d1, id)
    IN  [d1 EXCEPT ![k].available_units = Append(@, u)]

\* update_info[grade] = date
SetItem(f, key, value) == (key :> value) @@ f

-----------------------------------------------------------------------------
(* The pricelist text the runs draw their lines from *)

w123 == <<"1", "2", "3">>

w456 == <<"4", "5", "6">>

wDuoflex == <<"D", "u", "o", "f", "l", "e", "x">>

wTriflex == <<"T", "r", "i", "f", "l", "e", "x">>

wHX1 == <<"H", "X", "1">>

wRed == <<"R", "e", "d">>

wB1 == <<"B", "1">>

wB2 == <<"B", "2">>

wPage == <<"P", "a", "g", "e">>

a0 == <<"£", "0", ".", "0", "0">>

a99 == <<"£", "9", "9", ".", "0", "0">>

a140 == <<"£", "1", "4", "0", ".", "0", "0">>

a179 == <<"£", "1", "7", "9", ".", "0", "0">>

a199 == <<"£", "1", "9", "9", ".", "0", "0">>

a299 == <<"£", "2", "9", "9", ".", "0", "0">>

a1299 == <<"£", "1", ",", "2", "9", "9", ".", "0", "0">>

d0103 == <<"0", "1", "/", "0", "3", "/", "2", "0", "2", "4">>

d0204 == <<"0", "2", "/", "0", "4", "/", "2", "0", "2", "4">>

UpdateLine(g, d) ==
    <<kwMiele, kwOutlet, g, kwGrade, kwPricelist, kwDash, kwUpdated, d>>

Row(id, desc, g, amounts) == <<id>> \o desc \o <<kwOutlet, g, kwStock>> \o amounts

Pricelist ==
    << \* 1: no discounted price, price above 150.00, two markers
       Row(w456, <<wDuoflex, wHX1, mkEU1, wDuoflex, mkGB>>, wB2, <<a299, a199>>),
       \* 2: price and discounted price below 150.00
       Row(w456, <<wTriflex, mkGB, wRed>>, wB2, <<a299, a140, a99>>),
       \* 3: price and discounted price above 150.00
       Row(w123, <<wDuoflex, wHX1, mkGB, wRed>>, wB1, <<a299, a199, a179>>),
       \* 4: discounted price below 150.00, name only after the marker
       Row(w123, <<wHX1, wRed, mkGB, wDuoflex>>, wB2, <<a299, a199, a140>>),
       \* 5: no discounted price, price below 150.00, no marker
       Row(w456, <<wTriflex>>, wB1, <<a1299, a140>>),
       \* 6: an update line
       UpdateLine(wB1, d0103),
       \* 7: an rrp of 0.00
       Row(w456, <<wRed>>, wB1, <<a0, a0>>),
       \* 8: layout text
       <<wPage, <<"1">>>>,
       \* 9: a discounted price of 0.00
       Row(w456, <<wTriflex, mkGB, wRed>>, wB1, <<a299, a199, a0>>),
       \* 10: an update line followed by other text
       UpdateLine(wB2, d0204) \o <<wPage, <<"1">>>>,
       \* 11: an update line preceded by other text
       <<wPage>> \o UpdateLine(wB2, d0204),
       \* 12: a product row followed by other text
       Row(w123, <<wDuoflex>>, wB1, <<a299, a199>>) \o <<wPage>>,
       \* 13: a product row preceded by other text
       <<wPage>> \o Row(w123, <<wDuoflex>>, wB1, <<a299, a199>>) >>

\* the lines a run that goes on to filter draws from
FilterLines == 1..8

\* the lines a run of parse_pdf alone draws from
ParseLines == 3..Len(Pricelist)

SeqsUpTo(S, n) == UNION {[1..k -> S] : k \in 0..n}

Text(k) == Pricelist[lines[k]]

-----------------------------------------------------------------------------
(* parse_pdf *)

InitCommon ==
    /\ pc = "parse"
    /\ line = 1
    /\ matches = <<>>
    /\ update_info = <<>>
    /\ call = 0
    /\ before = <<>>
    /\ filtered_products = <<>>
    /\ prod = 0
    /\ available_units = <<>>
    /\ unit = 0
    /\ checked = <<>>
    /\ outcome = <<>>
    /\ results = <<>>

\* any text of at most MaxLines lines, default arguments
InitParse ==
    /\ InitCommon
    /\ lines \in SeqsUpTo(ParseLines, MaxLines)
    /\ filter = <<>>
    /\ grade = <<>>
    /\ max_price = None
    /\ check_status = FALSE

Scanning == pc = "parse" /\ line <= Len(lines)

\* lines 75-77
ParseUpdate ==
    /\ Scanning
    /\ UpdateMatch(Text(line))
    /\ LET g == UpdateGroups(Text(line))
       IN  update_info' = SetItem(update_info, g.grade, g.date)
    /\ line' = line + 1
    /\ UNCHANGED <<pc, matches>>
    /\ UNCHANGED parseVars

\* lines 78-119
ParseRow ==
    /\ Scanning
    /\ ~UpdateMatch(Text(line))
    /\ RowMatch(Text(line))
    /\ LET g == RowGroups(Text(line))
       IN  /\ ~DivisionFails(g)
           /\ \E rate \in DiscountRates(ParseAmount(g.rrp), EffectivePrice(g)) :
                 matches' = AddUnit(matches, g.id, Unit(g, rate))
    /\ line' = line + 1
    /\ UNCHANGED <<pc, update_info>>
    /\ UNCHANGED parseVars

\* lines 78-105 on a row whose rrp is 0.00: the exception leaves parse_pdf
ParseRaise ==
    /\ Scanning
    /\ ~UpdateMatch(Text(line))
    /\ RowMatch(Text(line))
    /\ DivisionFails(RowGroups(Text(line)))
    /\ pc' = "ZeroDivisionError"
    /\ UNCHANGED <<line, matches, update_info>>
    /\ UNCHANGED parseVars

\* neither shape matches: the line is ignored
ParseSkip ==
    /\ Scanning
    /\ ~UpdateMatch(Text(line))
    /\ ~RowMatch(Text(line))
    /\ line' = line + 1
    /\ UNCHANGED <<pc, matches, update_info>>
    /\ UNCHANGED parseVars

\* line 121
ParseReturn ==
    /\ pc = "parse"
    /\ line > Len(lines)
    /\ pc' = "parsed"
    /\ UNCHANGED <<line, matches, update_info>>
    /\ UNCHANGED parseVars

NextParse == ParseUpdate \/ ParseRow \/ ParseRaise \/ ParseSkip \/ ParseReturn

SpecParse == InitParse /\ [][NextParse]_vars

-----------------------------------------------------------------------------
(* check_product_status *)

\* what requests.get(url) can do: raise RequestException or return a response
NetworkOutcomes ==
    [raised : {TRUE}, status_code : {0}]
        \cup [raised : {FALSE}, status_code : {200, 404, 500}]

\* the value of a call that ends with the exception leaving it
Propagates == "RequestException"

\* variant of check_product_status: no try/except around the request
check_product_statusUncaught(net) ==
    IF net.raised THEN Propagates
    ELSE IF net.status_code = 404 THEN "Inactive"
    ELSE "Active"

\* lines 38-45
check_product_status(net) ==
    IF net.raised THEN "Error"
    ELSE IF net.status_code = 404 THEN "Inactive"
    ELSE "Active"

-----------------------------------------------------------------------------
(* filter_products *)

\* the command lines the runs draw their arguments from
Filters == {<<>>, <<"d", "U", "o">>}

Grades == {<<>>, wB1, wB2}

MaxPrices == {None, Some(15000)}

InitFilter ==
    /\ InitCommon
    /\ lines \in SeqsUpTo(FilterLines, MaxFilterLines)
    /\ filter \in Filters
    /\ grade \in Grades
    /\ max_price \in MaxPrices
    /\ check_status \in BOOLEAN

\* dict.get(key)
Get(f, key) == IF key \in DOMAIN f THEN Some(f[key]) ELSE None

\* variant of WithUpdated: the date is stored under the wrong key
WithUpdatedAsGrade(u) == [u EXCEPT !.grade = Get(update_info, u.grade)]

\* available_unit['updated'] = ... (line 138)
WithUpdated(u) == ("updated" :> Get(update_info, u.grade)) @@ u

\* re.match(fr".*({filter}).*", text, re.IGNORECASE), filter a literal
FilterMatch(text) ==
    \E k \in 1..(Len(text) + 1) : StartsWithAt(LowerStr(text), k, LowerStr(filter))

\* line 139
GradeOk(u) == u.grade = grade \/ grade = <<>>

\* line 140
TextOk(u) == FilterMatch(u.product_name) \/ FilterMatch(u.description)

\* variant of PriceChain: the discounted price is not tested against 0
PriceChainNoSentinel(u) ==
    IF max_price # None /\ u.price <= max_price[1] THEN <<u>>
    ELSE IF max_price # None /\ u.discounted_price <= max_price[1] THEN <<u>>
    ELSE IF max_price = None THEN <<u>>
    ELSE <<>>

\* variant of PriceChain: three independent ifs instead of if/elif/elif
PriceChainIfs(u) ==
    (IF max_price # None /\ u.price <= max_price[1] THEN <<u>> ELSE <<>>)
    \o (IF /\ max_price # None
           /\ u.discounted_price # 0
           /\ u.discounted_price <= max_price[1] THEN <<u>> ELSE <<>>)
    \o (IF max_price = None THEN <<u>> ELSE <<>>)

\* lines 141-146: what the if/elif chain appends to the retained list
PriceChain(u) ==
    IF max_price # None /\ u.price <= max_price[1] THEN <<u>>
    ELSE IF /\ max_price # None
            /\ u.discounted_price # 0
            /\ u.discounted_price <= max_price[1] THEN <<u>>
    ELSE IF max_price = None THEN <<u>>
    ELSE <<>>

\* lines 139-146
Appended(u) == IF GradeOk(u) /\ TextOk(u) THEN PriceChain(u) ELSE <<>>

\* filtered_products[id] = details (line 136)
AddKey(keys, id) == IF id \in Range(keys) THEN keys ELSE Append(keys, id)

\* variant of PopKey: the emptied product is left in the result
PopKeyKeeps(keys, id) == keys

\* filtered_products.pop(id) (line 148)
PopKey(keys, id) == SelectSeq(keys, LAMBDA k : k # id)

\* the ids and unit lists of the mapping a call returns (line 152)
Returned ==
    [k \in DOMAIN filtered_products |->
        LET d == matches[IndexOf(matches, filtered_products[k])]
        IN  [id |-> d.id, available_units |-> d.available_units]]

\* lines 171-173 and 129-130: main passes the aggregated mapping on
CallFilter ==
    /\ pc = "parsed"
    /\ pc' = "product"
    /\ call' = 1
    /\ before' = matches
    /\ filtered_products' = <<>>
    /\ prod' = 0
    /\ checked' = <<>>
    /\ outcome' = <<>>
    /\ UNCHANGED <<lines, line, matches, update_info, filter, grade, max_price,
                   check_status, available_units, unit, results>>

\* line 147
NoneRetained == Len(matches[prod].available_units) = 0

\* variant of Checks: an if instead of the elif
ChecksIf == check_status

\* line 149: the elif branch
Checks == ~NoneRetained /\ check_status

\* lines 132-136: the next product's unit list is set aside and replaced
FilterProduct ==
    /\ pc = "product"
    /\ prod < Len(matches)
    /\ prod' = prod + 1
    /\ available_units' = matches[prod + 1].available_units
    /\ matches' = [matches EXCEPT ![prod + 1].available_units = <<>>]
    /\ filtered_products' = AddKey(filtered_products, matches[prod + 1].id)
    /\ unit' = 1
    /\ pc' = "unit"
    /\ UNCHANGED <<lines, line, update_info, filter, grade, max_price,
                   check_status, call, before, checked, outcome, results>>

\* lines 137-146: one unit of the current product
FilterUnit ==
    /\ pc = "unit"
    /\ unit <= Len(available_units)
    /\ LET u == WithUpdated(available_units[unit])
       IN  /\ available_units' = [available_units EXCEPT ![unit] = u]
           /\ matches' = [matches EXCEPT ![prod].available_units = @ \o Appended(u)]
    /\ unit' = unit + 1
    /\ UNCHANGED <<pc, lines, line, update_info, filter, grade, max_price,
                   check_status, call, before, filtered_products, prod, checked,
                   outcome, results>>

UnitsDone == pc = "unit" /\ unit > Len(available_units)

\* lines 147-148: no unit was retained
DropProduct ==
    /\ UnitsDone
    /\ NoneRetained
    /\ filtered_products' = PopKey(filtered_products, matches[prod].id)
    /\ pc' = "product"
    /\ UNCHANGED <<lines, line, matches, update_info, filter, grade, max_price,
                   check_status, call, before, prod, available_units, unit,
                   checked, outcome, results>>

\* lines 149-150: the availability check of a surviving product
CheckStatus ==
    /\ UnitsDone
    /\ Checks
    /\ \E net \in NetworkOutcomes :
          LET status == check_product_status(net)
          IN  /\ outcome' = SetItem(outcome, matches[prod].id, net)
              /\ IF status = Propagates
                 THEN pc' = Propagates /\ UNCHANGED matches
                 ELSE /\ pc' = "product"
                      /\ matches' = [matches EXCEPT ![prod].status = status]
    /\ checked' = Append(checked, matches[prod].id)
    /\ UNCHANGED <<lines, line, update_info, filter, grade, max_price,
                   check_status, call, before, filtered_products, prod,
                   available_units, unit, results>>

\* lines 147-150 with check_status false: the product is kept as it is
KeepProduct ==
    /\ UnitsDone
    /\ ~NoneRetained
    /\ ~check_status
    /\ pc' = "product"
    /\ UNCHANGED <<lines, line, matches, update_info, filter, grade, max_price,
                   check_status, call, before, filtered_products, prod,
                   available_units, unit, checked, outcome, results>>

\* line 152
FilterReturn ==
    /\ pc = "product"
    /\ prod = Len(matches)
    /\ pc' = "returned"
    /\ results' = Append(results, Returned)
    /\ UNCHANGED <<lines, line, matches, update_info, filter, grade, max_price,
                   check_status, call, before, filtered_products, prod,
                   available_units, unit, checked, outcome>>

\* filter_products called again on the same mapping with the same arguments
Refilter ==
    /\ pc = "returned"
    /\ call < MaxCalls
    /\ pc' = "product"
    /\ call' = call + 1
    /\ filtered_products' = <<>>
    /\ prod' = 0
    /\ checked' = <<>>
    /\ outcome' = <<>>
    /\ UNCHANGED <<lines, line, matches, update_info, filter, grade, max_price,
                   check_status, before, available_units, unit, results>>

NextFilter ==
    \/ CallFilter
    \/ FilterProduct
    \/ FilterUnit
    \/ DropProduct
    \/ CheckStatus
    \/ KeepProduct
    \/ FilterReturn

Next == NextParse \/ NextFilter

\* one run of the program
Spec == InitFilter /\ [][Next]_vars

\* a run followed by further calls of filter_products
SpecTwice == InitFilter /\ [][Next \/ Refilter]_vars

-----------------------------------------------------------------------------
(* Properties *)

\* a unit without the field the filter attaches
Original(u) == [f \in DOMAIN u \ {"updated"} |-> u[f]]

Originals(us) == [j \in DOMAIN us |-> Original(us[j])]

\* the passing condition as the specification words it
ClaimPasses(u) ==
    /\ grade = <<>> \/ u.grade = grade
    /\ FilterMatch(u.product_name) \/ FilterMatch(u.description)
    /\ \/ max_price = None
       \/ u.price <= max_price[1]
       \/ u.discounted_price # 0 /\ u.discounted_price <= max_price[1]

\* the products and units expected to survive, from the mapping as it was
\* passed to the first call
Expected ==
    SelectSeq(
        [k \in DOMAIN before |->
            [id |-> before[k].id,
             available_units |->
                 SelectSeq(Originals(before[k].available_units), ClaimPasses)]],
        LAMBDA p : p.available_units # <<>>)

\* a returned value with the attached field left out of every unit
Plain(res) ==
    [k \in DOMAIN res |->
        [id |-> res[k].id, available_units |-> Originals(res[k].available_units)]]

\* C1: each step of filter_products over one unit retains that unit exactly
\* when grade is unconstrained or equals the unit's grade, and the pattern
\* matches its product_name or description ignoring case, and max_price is
\* unconstrained or price <= max_price or a non-sentinel discounted_price
\* <= max_price; a unit that does not pass leaves the retained list as it was.
C1_UnitPassesExactlyWhen ==
    [][(pc = "unit" /\ unit <= Len(available_units) /\ unit' = unit + 1) =>
        LET u == available_units[unit]
            old == matches[prod].available_units
            new == matches'[prod].available_units
        IN  IF ClaimPasses(Original(u))
            THEN /\ Len(new) = Len(old) + 1
                 /\ SubSeq(new, 1, Len(old)) = old
                 /\ Original(new[Len(new)]) = Original(u)
            ELSE new = old]_vars

\* with max_price 150.00: the unit priced 199.00/179.00 was dropped and the
\* unit priced 199.00/140.00 of the same product was retained
C1_Witness ==
    /\ pc = "returned"
    /\ max_price = Some(15000)
    /\ Len(before) = 1
    /\ Len(before[1].available_units) = 2
    /\ before[1].available_units[1].discounted_price = 17900
    /\ before[1].available_units[2].discounted_price = 14000
    /\ Len(results[1]) = 1
    /\ Len(results[1][1].available_units) = 1
    /\ results[1][1].available_units[1].discounted_price = 14000
    /\ results[1][1].available_units[1].price = 19900

\* C2: the mapping filter_products returns holds exactly the products with at
\* least one passing unit, in their original order, each with exactly its
\* passing units, once each and in their original order; so no returned
\* product has an empty unit list.
C2_SurvivorsAreThePassingUnits ==
    pc = "returned" =>
        /\ Plain(results[Len(results)]) = Expected
        /\ \A k \in DOMAIN results[Len(results)] :
              results[Len(results)][k].available_units # <<>>

\* one product was dropped and another survived with a unit
C2_Witness ==
    /\ pc = "returned"
    /\ Len(before) = 2
    /\ Len(results[1]) = 1
    /\ results[1][1].id = before[2].id

\* the products whose filtering, and check if any, is over
Finished(k) == k < prod \/ (k = prod /\ pc # "unit")

\* C3: within one call, check_product_status is called for exactly the
\* finished surviving products when check_status is true, each once and in
\* the order of the products, never for a dropped product and never while the
\* product's units are still being filtered; when check_status is false it is
\* never called and every status stays "Unknown".
C3_ChecksOncePerSurvivorInOrder ==
    /\ \A i, j \in DOMAIN checked : i # j => checked[i] # checked[j]
    /\ \A i \in DOMAIN checked :
          /\ checked[i] \in Range(filtered_products)
          /\ matches[IndexOf(matches, checked[i])].available_units # <<>>
    /\ pc = "unit" => matches[prod].id \notin Range(checked)
    /\ ~check_status =>
          /\ checked = <<>>
          /\ \A k \in DOMAIN matches : matches[k].status = "Unknown"
    /\ (check_status /\ call > 0) =>
          checked = SelectSeq(Keys(matches),
                              LAMBDA id : /\ Finished(IndexOf(matches, id))
                                          /\ id \in Range(filtered_products))

\* two products survived and were checked, in product order
C3_Witness ==
    /\ pc = "returned"
    /\ check_status
    /\ Len(matches) = 2
    /\ checked = Keys(matches)

\* C4 as claimed: after filter_products returns, every product of the input
\* mapping has the unit list it had, with the same fields and values, and
\* only the status may differ, and only when check_status is true.
C4_InputUntouched ==
    pc = "returned" =>
        /\ Keys(matches) = Keys(before)
        /\ \A k \in DOMAIN before :
              /\ matches[k].available_units = before[k].available_units
              /\ matches[k].url = before[k].url
              /\ ~check_status => matches[k].status = before[k].status

\* C4 as amended: filter_products works on the input mapping in place.  After
\* it returns the input holds the same products in the same order with the
\* same url; each product's unit list has been replaced by its passing
\* units; each of those keeps every field it had with the value it had and
\* has gained exactly the field "updated"; a status differs only when
\* check_status is true.
C4_InputChangedInPlace ==
    pc = "returned" =>
        /\ Keys(matches) = Keys(before)
        /\ \A k \in DOMAIN before :
              /\ matches[k].url = before[k].url
              /\ ~check_status => matches[k].status = before[k].status
              /\ Originals(matches[k].available_units)
                    = SelectSeq(Originals(before[k].available_units), ClaimPasses)
              /\ \A j \in DOMAIN matches[k].available_units :
                    LET u == matches[k].available_units[j]
                    IN  /\ "updated" \in DOMAIN u
                        /\ \E j0 \in DOMAIN before[k].available_units :
                              LET u0 == before[k].available_units[j0]
                              IN  /\ DOMAIN u = DOMAIN u0 \cup {"updated"}
                                  /\ \A f \in DOMAIN u0 : u[f] = u0[f]

\* the input product had two units and is left with one, which has gained
\* the "updated" field
C4_Witness ==
    /\ pc = "returned"
    /\ call = 1
    /\ Len(before) = 1
    /\ Len(before[1].available_units) = 2
    /\ Len(matches[1].available_units) = 1
    /\ "updated" \in DOMAIN matches[1].available_units[1]
    /\ "updated" \notin DOMAIN before[1].available_units[2]

\* C5: every further call of filter_products with the same filter, grade and
\* max_price on the same mapping returns the same products with the same
\* units as the first call.
C5_FilterIdempotent ==
    \A k \in DOMAIN results : results[k] = results[1]

\* a second call has returned, after a first call that dropped a product and
\* kept another
C5_Witness ==
    /\ Len(results) = 2
    /\ Len(before) = 2
    /\ Len(results[1]) = 1
    /\ Len(results[2]) = 1

\* the price the specification computes the discount rate from
ClaimEffective(u) ==
    IF u.discounted_price # 0 THEN u.discounted_price ELSE u.price

AllUnits ==
    UNION {Range(matches[k].available_units) : k \in DOMAIN matches}

\* C6: every unit's discount rate is the rounded share of rrp saved at the
\* effective price, which is the discounted price when one is present and
\* nonzero and the price otherwise.
C6_RateFromEffectivePrice ==
    \A u \in AllUnits :
        u.discount_rate \in DiscountRates(u.rrp, ClaimEffective(u))

\* C7: normalising a product row always completes, also for an rrp of 0.00,
\* and gives a discount rate between 0 and 100 when the price and the
\* discounted price do not exceed rrp.
C7_RateInRange ==
    /\ pc # "ZeroDivisionError"
    /\ \A u \in AllUnits :
          (u.price <= u.rrp /\ u.discounted_price <= u.rrp) =>
              (0 <= u.discount_rate /\ u.discount_rate <= 10000)

\* the outcome the specification maps a check to
ClaimStatus(net) ==
    IF net.raised THEN "Error"
    ELSE IF net.status_code = 404 THEN "Inactive"
    ELSE "Active"

\* C8: a check that fails at transport level leaves the run going and gives
\* its product the status "Error"; a 404 response gives "Inactive" and any
\* other response "Active"; a product that was not checked keeps "Unknown";
\* and when the call returns every surviving product has been checked,
\* whatever happened to the checks before it.
C8_CheckFailureIsLocal ==
    /\ pc # Propagates
    /\ \A k \in DOMAIN matches :
          matches[k].status =
              IF matches[k].id \in DOMAIN outcome
              THEN ClaimStatus(outcome[matches[k].id])
              ELSE "Unknown"
    /\ (pc = "returned" /\ check_status) =>
          Range(filtered_products) = DOMAIN outcome

\* the first product's check failed at transport level, the second product
\* was still checked and got a 404
C8_Witness ==
    /\ pc = "returned"
    /\ Len(checked) = 2
    /\ outcome[checked[1]].raised
    /\ matches[1].status = "Error"
    /\ outcome[checked[2]].status_code = 404
    /\ matches[2].status = "Inactive"

\* the scanned lines that are product rows, in scan order
IsRowLine(k) == ~UpdateMatch(Text(k)) /\ RowMatch(Text(k))

ScannedRows == SelectSeq([k \in 1..(line - 1) |-> k], IsRowLine)

IdOfLine(k) == RowGroups(Text(k)).id

RowsOf(id) == SelectSeq(ScannedRows, LAMBDA k : IdOfLine(k) = id)

FirstRows ==
    SelectSeq(ScannedRows,
              LAMBDA k : \A j \in 1..(k - 1) :
                            IsRowLine(j) => IdOfLine(j) # IdOfLine(k))

\* C9: while parse_pdf scans, and when it returns, the mapping holds one
\* product per id among the product rows scanned, in order of first
\* appearance, with status "Unknown" and url = base path + id; the product's
\* units are the normalised rows of that id, one per row, in scan order; and
\* no unit has an id or url field.
C9_GroupedByIdInScanOrder ==
    /\ Keys(matches) = [j \in DOMAIN FirstRows |-> IdOfLine(FirstRows[j])]
    /\ \A k \in DOMAIN matches :
          LET p == matches[k]
              rows == RowsOf(p.id)
          IN  /\ p.status = "Unknown"
              /\ p.url = BaseUrl \o p.id
              /\ Len(p.available_units) = Len(rows)
              /\ \A j \in DOMAIN p.available_units :
                    LET u == p.available_units[j]
                        g == RowGroups(Text(rows[j]))
                    IN  /\ "id" \notin DOMAIN u
                        /\ "url" \notin DOMAIN u
                        /\ [u EXCEPT !.discount_rate = 0] = Unit(g, 0)
                        /\ u.discount_rate \in
                              DiscountRates(ParseAmount(g.rrp), EffectivePrice(g))

\* three rows were scanned, the second of another product than the first
\* and third
C9_Witness ==
    /\ pc = "parsed"
    /\ Len(lines) = 3
    /\ Len(matches) = 2
    /\ Len(matches[1].available_units) = 2
    /\ Len(matches[2].available_units) = 1
    /\ IdOfLine(2) = matches[2].id

\* the line is exactly an update-info text
ExactUpdate(L) ==
    /\ Len(L) = 8
    /\ SubSeq(L, 1, 7)
          = <<kwMiele, kwOutlet, L[3], kwGrade, kwPricelist, kwDash, kwUpdated>>
    /\ IsGradeCode(L[3])
    /\ BeginsWithDate(L[8])
    /\ Len(L[8]) = DateLen

\* the line begins with an update-info text
UpdatePrefix(L) ==
    /\ Len(L) >= 8
    /\ SubSeq(L, 1, 7)
          = <<kwMiele, kwOutlet, L[3], kwGrade, kwPricelist, kwDash, kwUpdated>>
    /\ IsGradeCode(L[3])
    /\ BeginsWithDate(L[8])

\* the line is exactly a product-row text
ExactRow(L) ==
    /\ Len(L) >= 1
    /\ IsDigits(L[1])
    /\ \E s \in 3..Len(L) :
          /\ Len(L) \in {s + 4, s + 5}
          /\ L[s] = kwOutlet
          /\ IsGradeCode(L[s + 1])
          /\ L[s + 2] = kwStock
          /\ \A k \in (s + 3)..Len(L) : IsAmount(L[k])

\* C10 as claimed: a scanned line changes update_info only when it is exactly
\* an update-info text and the product mapping only when it is exactly a
\* product-row text, never both; any other line changes neither.
C10_FullLineOnly ==
    [][(pc = "parse" /\ line' = line + 1) =>
        /\ update_info' # update_info => ExactUpdate(Text(line))
        /\ matches' # matches => ExactRow(Text(line))
        /\ update_info' = update_info \/ matches' = matches]_vars

\* C10 as amended: a scanned line contributes to at most one of update_info
\* and the product mapping; it contributes to the product mapping exactly when
\* the full line is a product-row text; it sets update_info exactly when it
\* begins with an update-info text, whatever follows on the line; a line
\* where either text is preceded by other characters, or a product-row text
\* is followed by other characters, changes neither.
C10_RowAnchoredUpdatePrefix ==
    [][(pc = "parse" /\ line' = line + 1) =>
        LET L == Text(line)
        IN  /\ update_info' = update_info \/ matches' = matches
            /\ matches' # matches <=> ExactRow(L)
            /\ IF UpdatePrefix(L)
               THEN update_info' = SetItem(update_info, L[3], SubSeq(L[8], 1, DateLen))
               ELSE update_info' = update_info]_vars

\* an update line followed by other text has set update_info, and a product
\* row followed by other text has been scanned without adding a product
C10_Witness ==
    \E k \in 1..(line - 1) :
        /\ UpdatePrefix(Text(k))
        /\ ~ExactUpdate(Text(k))
        /\ Text(k)[3] \in DOMAIN update_info
        /\ update_info[Text(k)[3]] = SubSeq(Text(k)[8], 1, DateLen)
        /\ matches = <<>>
        /\ \E j \in 1..(line - 1) : ~ExactRow(Text(j)) /\ ~UpdatePrefix(Text(j))

====
